---- MODULE Spec2Model ----
(***************************************************************************)
(* Finger-joint geometry of boxcraft: the joint dimension calculator, the  *)
(* two edge point generators, FingerBoard.createFingerBoard (outline and   *)
(* placement) and Box.createMesh (the panel list, finger or flat).         *)
(*                                                                         *)
(* JavaScript numbers are modelled as exact rationals [n, d] in lowest     *)
(* terms with d > 0, so every sum, product and quotient of the source is   *)
(* computed, not assumed.  Rounding error of IEEE doubles is not modelled. *)
(***************************************************************************)
EXTENDS Integers, Sequences, FiniteSets, TLC

\* ------------------------------------------------------------------ bounds
MaxDim == 3
MaxFinger == 2
MaxThick == 1
MaxBoxDim == 5

\* ------------------------------------------------------------- rationals
Abs(i) == IF i < 0 THEN -i ELSE i

RECURSIVE GCD(_, _)
GCD(a, b) == IF b = 0 THEN a ELSE GCD(b, a % b)

\* the rational n/d (d # 0) in lowest terms with a positive denominator
Q(n, d) ==
  LET s == IF d < 0 THEN -1 ELSE 1
      g == GCD(Abs(n), Abs(d))
  IN  [n |-> (s * n) \div g, d |-> (s * d) \div g]

QInt(i) == [n |-> i, d |-> 1]
QAdd(a, b) == Q(a.n * b.d + b.n * a.d, a.d * b.d)
QSub(a, b) == Q(a.n * b.d - b.n * a.d, a.d * b.d)
QMul(a, b) == Q(a.n * b.n, a.d * b.d)
QDiv(a, b) == Q(a.n * b.d, a.d * b.n)
QNeg(a) == [n |-> -a.n, d |-> a.d]
QLt(a, b) == a.n * b.d < b.n * a.d
QLe(a, b) == a.n * b.d <= b.n * a.d
\* Math.floor
QFloor(a) == a.n \div a.d
\* Math.max on integers
Max(a, b) == IF a > b THEN a ELSE b

Zero == QInt(0)
Q2 == QInt(2)
Q100 == QInt(100)

Point(px, py) == [x |-> px, y |-> py]
Last(s) == s[Len(s)]

\* ----------------------------------------- calculateFingerJointDimensions
\* Math.max(1, Math.floor((dimension + fingerSize) / (2 * fingerSize)))
FingerCountNoClamp(dimension, fingerSize) ==
  QFloor(QDiv(QAdd(dimension, fingerSize), QMul(Q2, fingerSize)))

\* the finger size multiplied in where the source divides by it
FingerCountMultiplied(dimension, fingerSize) ==
  Max(1, QFloor(QDiv(QMul(QAdd(dimension, fingerSize), fingerSize), Q2)))

FingerCount(dimension, fingerSize) ==
  Max(1, QFloor(QDiv(QAdd(dimension, fingerSize), QMul(Q2, fingerSize))))

\* dimension / totalSegments / 100 with totalSegments = count * 2 + 1
SegmentLengthEven(dimension, count) ==
  QDiv(QDiv(dimension, QInt(count * 2)), Q100)

SegmentLength(dimension, count) ==
  LET totalSegments == count * 2 + 1
  IN  QDiv(QDiv(dimension, QInt(totalSegments)), Q100)

\* the tooth count and the segment length of the horizontal edges taken
\* from the panel's width instead of the finger-bearing width
calculateFingerJointDimensionsOverPanel(config) ==
  LET width == QInt(config.width)
      height == QInt(config.height)
      thickness == QInt(config.thickness)
      fingerSize == QInt(config.fingerSize)
      panelWidth == IF config.actualWidth # 0 THEN QInt(config.actualWidth) ELSE width
      x0 == QDiv(QDiv(QNeg(panelWidth), Q2), Q100)
      y0 == QDiv(QDiv(QNeg(height), Q2), Q100)
      countX == FingerCount(panelWidth, fingerSize)
      countY == FingerCount(height, fingerSize)
      fingerAreaWidth == QDiv(width, Q100)
  IN  [countX |-> countX, countY |-> countY,
       fingerWidth |-> SegmentLength(panelWidth, countX),
       fingerHeight |-> SegmentLength(height, countY),
       fingerAreaWidth |-> fingerAreaWidth,
       fingerStartX |-> QAdd(x0, QDiv(QSub(QDiv(panelWidth, Q100), fingerAreaWidth), Q2)),
       x0 |-> x0, y0 |-> y0, x1 |-> QNeg(x0), y1 |-> QNeg(y0),
       tScaled |-> QDiv(thickness, Q100)]

\* config.actualWidth = 0 stands for an absent actualWidth: undefined and 0
\* are both falsy at `actualWidth || width`.
calculateFingerJointDimensions(config) ==
  LET width == QInt(config.width)
      height == QInt(config.height)
      thickness == QInt(config.thickness)
      fingerSize == QInt(config.fingerSize)
      panelWidth == IF config.actualWidth # 0 THEN QInt(config.actualWidth) ELSE width
      x0 == QDiv(QDiv(QNeg(panelWidth), Q2), Q100)
      y0 == QDiv(QDiv(QNeg(height), Q2), Q100)
      x1 == QDiv(QDiv(panelWidth, Q2), Q100)
      y1 == QDiv(QDiv(height, Q2), Q100)
      tScaled == QDiv(thickness, Q100)
      countX == FingerCount(width, fingerSize)
      countY == FingerCount(height, fingerSize)
      fingerWidth == SegmentLength(width, countX)
      fingerHeight == SegmentLength(height, countY)
      fingerAreaWidth == QDiv(width, Q100)
      fingerStartX == QAdd(x0, QDiv(QSub(QDiv(panelWidth, Q100), fingerAreaWidth), Q2))
  IN  [countX |-> countX, countY |-> countY,
       fingerWidth |-> fingerWidth, fingerHeight |-> fingerHeight,
       fingerAreaWidth |-> fingerAreaWidth, fingerStartX |-> fingerStartX,
       x0 |-> x0, y0 |-> y0, x1 |-> x1, y1 |-> y1, tScaled |-> tScaled]

\* ----------------------------------------- generateHorizontalFingerPoints
\* The for loop over the countX teeth; the extended and the normal branch
\* run the same loop body.  Returns the points after the loop.
RECURSIVE HorizontalLoop(_, _, _, _, _, _, _)
HorizontalLoop(i, currentX, points, dimensions, yPos, xDirection, toothY) ==
  IF i < dimensions.countX
  THEN LET nextX == QAdd(currentX, QMul(QInt(xDirection), dimensions.fingerWidth))
           tooth == points \o << Point(currentX, toothY),
                                 Point(nextX, toothY),
                                 Point(nextX, yPos) >>
       IN  IF i < dimensions.countX - 1
           THEN LET gapX == QAdd(nextX, QMul(QInt(xDirection), dimensions.fingerWidth))
                IN  HorizontalLoop(i + 1, gapX, tooth \o << Point(gapX, yPos) >>,
                                   dimensions, yPos, xDirection, toothY)
           ELSE HorizontalLoop(i + 1, nextX, tooth,
                               dimensions, yPos, xDirection, toothY)
  ELSE points

\* currentX after "Start with gap": one segment past the start of the
\* finger-bearing span, in the edge's direction of travel
HorizontalStartNoGap(dimensions, isExtended, isTop) ==
  IF isExtended
  THEN IF isTop THEN QAdd(dimensions.fingerStartX, dimensions.fingerAreaWidth)
                ELSE dimensions.fingerStartX
  ELSE IF isTop THEN dimensions.x1 ELSE dimensions.x0

\* the extended branch walking from the panel's corner, like the normal one
HorizontalStartFromCorner(dimensions, isExtended, isTop) ==
  LET xDirection == IF isTop THEN -1 ELSE 1
      startX == IF isTop THEN dimensions.x1 ELSE dimensions.x0
  IN  QAdd(startX, QMul(QInt(xDirection), dimensions.fingerWidth))

HorizontalStart(dimensions, isExtended, isTop) ==
  LET xDirection == IF isTop THEN -1 ELSE 1
      startX == IF isExtended
                THEN IF isTop THEN QAdd(dimensions.fingerStartX, dimensions.fingerAreaWidth)
                              ELSE dimensions.fingerStartX
                ELSE IF isTop THEN dimensions.x1 ELSE dimensions.x0
  IN  QAdd(startX, QMul(QInt(xDirection), dimensions.fingerWidth))

\* the x of the last point pushed: the corner the edge runs to
HorizontalEndOfFingerArea(dimensions, isTop) ==
  IF isTop THEN dimensions.fingerStartX
           ELSE QAdd(dimensions.fingerStartX, dimensions.fingerAreaWidth)

HorizontalEnd(dimensions, isTop) ==
  IF isTop THEN dimensions.x0 ELSE dimensions.x1

\* the y of a tooth (outward) or slot (inward) of a horizontal edge
ToothYInward(dimensions, isTop, hasFingers) ==
  LET yPos == IF isTop THEN dimensions.y1 ELSE dimensions.y0
      fingerDirection == IF isTop THEN 1 ELSE -1
  IN  QSub(yPos, QMul(QInt(fingerDirection), dimensions.tScaled))

\* teeth and slots of a fixed depth 1/100, whatever the thickness
ToothYUnitDepth(dimensions, isTop, hasFingers) ==
  LET yPos == IF isTop THEN dimensions.y1 ELSE dimensions.y0
      fingerDirection == IF isTop THEN 1 ELSE -1
      depth == QDiv(QInt(1), Q100)
  IN  IF hasFingers
      THEN QAdd(yPos, QMul(QInt(fingerDirection), depth))
      ELSE QSub(yPos, QMul(QInt(fingerDirection), depth))

ToothY(dimensions, isTop, hasFingers) ==
  LET yPos == IF isTop THEN dimensions.y1 ELSE dimensions.y0
      fingerDirection == IF isTop THEN 1 ELSE -1
  IN  IF hasFingers
      THEN QAdd(yPos, QMul(QInt(fingerDirection), dimensions.tScaled))
      ELSE QSub(yPos, QMul(QInt(fingerDirection), dimensions.tScaled))

\* the leading point of the extension pushed on the top edge as well
generateHorizontalFingerPointsLeadOnTop(dimensions, isExtended, isTop, hasFingers) ==
  LET yPos == IF isTop THEN dimensions.y1 ELSE dimensions.y0
      xDirection == IF isTop THEN -1 ELSE 1
      lead == IF isExtended
              THEN << Point(IF isTop
                            THEN QAdd(dimensions.fingerStartX, dimensions.fingerAreaWidth)
                            ELSE dimensions.fingerStartX, yPos) >>
              ELSE << >>
      currentX == HorizontalStart(dimensions, isExtended, isTop)
      looped == HorizontalLoop(0, currentX, lead \o << Point(currentX, yPos) >>,
                               dimensions, yPos, xDirection,
                               ToothY(dimensions, isTop, hasFingers))
  IN  looped \o << Point(HorizontalEnd(dimensions, isTop), yPos) >>

generateHorizontalFingerPoints(dimensions, isExtended, isTop, hasFingers) ==
  LET yPos == IF isTop THEN dimensions.y1 ELSE dimensions.y0
      xDirection == IF isTop THEN -1 ELSE 1
      \* extended bottom edge: the solid left extension is drawn first
      lead == IF isExtended /\ ~isTop
              THEN << Point(dimensions.fingerStartX, yPos) >> ELSE << >>
      currentX == HorizontalStart(dimensions, isExtended, isTop)
      looped == HorizontalLoop(0, currentX, lead \o << Point(currentX, yPos) >>,
                               dimensions, yPos, xDirection,
                               ToothY(dimensions, isTop, hasFingers))
  IN  looped \o << Point(HorizontalEnd(dimensions, isTop), yPos) >>

\* ------------------------------------------- generateVerticalFingerPoints
RECURSIVE VerticalLoop(_, _, _, _, _, _, _)
VerticalLoop(i, currentY, points, dimensions, xPos, yDirection, toothX) ==
  IF i < dimensions.countY
  THEN LET nextY == QAdd(currentY, QMul(QInt(yDirection), dimensions.fingerHeight))
           tooth == points \o << Point(toothX, currentY),
                                 Point(toothX, nextY),
                                 Point(xPos, nextY) >>
       IN  IF i < dimensions.countY - 1
           THEN LET gapY == QAdd(nextY, QMul(QInt(yDirection), dimensions.fingerHeight))
                IN  VerticalLoop(i + 1, gapY, tooth \o << Point(xPos, gapY) >>,
                                 dimensions, xPos, yDirection, toothX)
           ELSE VerticalLoop(i + 1, nextY, tooth,
                             dimensions, xPos, yDirection, toothX)
  ELSE points

\* currentY after "Start with gap"
VerticalStartNoGap(dimensions, isRight) ==
  IF isRight THEN dimensions.y0 ELSE dimensions.y1

VerticalStart(dimensions, isRight) ==
  LET yDirection == IF isRight THEN 1 ELSE -1
      startY == IF isRight THEN dimensions.y0 ELSE dimensions.y1
  IN  QAdd(startY, QMul(QInt(yDirection), dimensions.fingerHeight))

VerticalEnd(dimensions, isRight) ==
  IF isRight THEN dimensions.y1 ELSE dimensions.y0

\* the x of a tooth (outward) or slot (inward) of a vertical edge
ToothXFlat(dimensions, isRight, hasFingers) ==
  IF isRight THEN dimensions.x1 ELSE dimensions.x0

ToothX(dimensions, isRight, hasFingers) ==
  LET xPos == IF isRight THEN dimensions.x1 ELSE dimensions.x0
      fingerDirection == IF isRight THEN 1 ELSE -1
  IN  IF hasFingers
      THEN QAdd(xPos, QMul(QInt(fingerDirection), dimensions.tScaled))
      ELSE QSub(xPos, QMul(QInt(fingerDirection), dimensions.tScaled))

generateVerticalFingerPoints(dimensions, isRight, hasFingers) ==
  LET xPos == IF isRight THEN dimensions.x1 ELSE dimensions.x0
      yDirection == IF isRight THEN 1 ELSE -1
      currentY == VerticalStart(dimensions, isRight)
      looped == VerticalLoop(0, currentY, << Point(xPos, currentY) >>,
                             dimensions, xPos, yDirection,
                             ToothX(dimensions, isRight, hasFingers))
  IN  looped \o << Point(xPos, VerticalEnd(dimensions, isRight)) >>

\* ------------------------------------------- FingerBoard.getFingerPatterns
\* the table with teeth on the left panel's bottom edge
getFingerPatternsLeftBottomTeeth(side) ==
  CASE side = "front"  -> [top |-> FALSE, right |-> FALSE, bottom |-> FALSE, left |-> FALSE]
    [] side = "back"   -> [top |-> FALSE, right |-> FALSE, bottom |-> FALSE, left |-> FALSE]
    [] side = "left"   -> [top |-> FALSE, right |-> TRUE, bottom |-> TRUE, left |-> TRUE]
    [] side = "right"  -> [top |-> FALSE, right |-> TRUE, bottom |-> FALSE, left |-> TRUE]
    [] OTHER           -> [top |-> TRUE, right |-> TRUE, bottom |-> TRUE, left |-> TRUE]

getFingerPatterns(side) ==
  CASE side = "front"  -> [top |-> FALSE, right |-> FALSE, bottom |-> FALSE, left |-> FALSE]
    [] side = "back"   -> [top |-> FALSE, right |-> FALSE, bottom |-> FALSE, left |-> FALSE]
    [] side = "left"   -> [top |-> FALSE, right |-> TRUE, bottom |-> FALSE, left |-> TRUE]
    [] side = "right"  -> [top |-> FALSE, right |-> TRUE, bottom |-> FALSE, left |-> TRUE]
    [] side = "bottom" -> [top |-> TRUE, right |-> TRUE, bottom |-> TRUE, left |-> TRUE]
    [] side = "top"    -> [top |-> TRUE, right |-> TRUE, bottom |-> TRUE, left |-> TRUE]
    [] OTHER           -> [top |-> TRUE, right |-> TRUE, bottom |-> TRUE, left |-> TRUE]

\* ------------------------------------------ FingerBoard.createFingerBoard
Vec(vx, vy, vz) == [x |-> vx, y |-> vy, z |-> vz]
\* rotations are counted in quarter turns (Math.PI / 2)
NoRotation == [x |-> 0, y |-> 0]

\* the placement with the back and left panels mirrored from the front and
\* right ones, the panel's own thickness t left out of their offsets
PlaceFingerBoardMirrored(props, t, side) ==
  LET inner == [w |-> QDiv(QDiv(QSub(QInt(props.width), QMul(Q2, QInt(props.thickness))), Q2), Q100),
                d |-> QDiv(QDiv(QSub(QInt(props.depth), QMul(Q2, QInt(props.thickness))), Q2), Q100)]
      y == QDiv(QSub(QDiv(QInt(props.height), Q2), QInt(t)), Q100)
  IN  CASE side = "front" -> [position |-> Vec(Zero, Zero, inner.d), rotation |-> NoRotation]
        [] side = "back" -> [position |-> Vec(Zero, Zero, QNeg(inner.d)), rotation |-> NoRotation]
        [] side = "left" -> [position |-> Vec(QNeg(inner.w), Zero, Zero), rotation |-> [x |-> 0, y |-> 1]]
        [] side = "right" -> [position |-> Vec(inner.w, Zero, Zero), rotation |-> [x |-> 0, y |-> 1]]
        [] side = "bottom" -> [position |-> Vec(Zero, QNeg(y), Zero), rotation |-> [x |-> 1, y |-> 0]]
        [] side = "top" -> [position |-> Vec(Zero, y, Zero), rotation |-> [x |-> 1, y |-> 0]]
        [] OTHER -> [position |-> Vec(Zero, Zero, Zero), rotation |-> NoRotation]

\* the placement switch: position and rotation of the mesh for `side`;
\* props are the FingerBoard's constructor props (the box's dimensions)
PlaceFingerBoard(props, t, side) ==
  LET pw == QInt(props.width)
      ph == QInt(props.height)
      pd == QInt(props.depth)
      pt == QInt(props.thickness)
      tq == QInt(t)
      verticalPanelY == Zero
  IN  CASE side = "front" ->
             [position |-> Vec(Zero, verticalPanelY,
                               QDiv(QDiv(QSub(pd, QMul(Q2, pt)), Q2), Q100)),
              rotation |-> NoRotation]
        [] side = "back" ->
             [position |-> Vec(Zero, verticalPanelY,
                               QDiv(QNeg(QAdd(QDiv(QSub(pd, QMul(Q2, pt)), Q2), tq)), Q100)),
              rotation |-> NoRotation]
        [] side = "left" ->
             [position |-> Vec(QDiv(QNeg(QAdd(QDiv(QSub(pw, QMul(Q2, pt)), Q2), tq)), Q100),
                               verticalPanelY, Zero),
              rotation |-> [x |-> 0, y |-> 1]]
        [] side = "right" ->
             [position |-> Vec(QDiv(QDiv(QSub(pw, QMul(Q2, pt)), Q2), Q100),
                               verticalPanelY, Zero),
              rotation |-> [x |-> 0, y |-> 1]]
        [] side = "bottom" ->
             [position |-> Vec(Zero, QDiv(QNeg(QSub(QDiv(ph, Q2), tq)), Q100), Zero),
              rotation |-> [x |-> 1, y |-> 0]]
        [] side = "top" ->
             [position |-> Vec(Zero, QDiv(QSub(QDiv(ph, Q2), tq), Q100), Zero),
              rotation |-> [x |-> 1, y |-> 0]]
        [] OTHER ->
             [position |-> Vec(Zero, Zero, Zero), rotation |-> NoRotation]

NoGeometry == [width |-> Zero, height |-> Zero, depth |-> Zero]

\* const isExtended = actualWidth && actualWidth > w
IsExtendedNever(w, actualWidth) == FALSE

IsExtended(w, actualWidth) == actualWidth # 0 /\ actualWidth > w

\* actualWidth = 0 stands for an absent actualWidth (falsy at both uses).
\* The mesh: its shape is the path moveTo(x0, y0) followed by every lineTo.
createFingerBoard(props, w, h, t, side, fingerSize, actualWidth) ==
  LET dimensions == calculateFingerJointDimensions(
                      [width |-> w, height |-> h, thickness |-> t,
                       fingerSize |-> fingerSize, actualWidth |-> actualWidth])
      isExtended == IsExtended(w, actualWidth)
      patterns == getFingerPatterns(side)
      bottomPoints == generateHorizontalFingerPoints(dimensions, isExtended, FALSE, patterns.bottom)
      rightPoints == generateVerticalFingerPoints(dimensions, TRUE, patterns.right)
      topPoints == generateHorizontalFingerPoints(dimensions, isExtended, TRUE, patterns.top)
      leftPoints == generateVerticalFingerPoints(dimensions, FALSE, patterns.left)
      componentName == IF side \in {"front", "back", "left", "right", "bottom"}
                       THEN CASE side = "front" -> "Front Panel"
                              [] side = "back" -> "Back Panel"
                              [] side = "left" -> "Left Panel"
                              [] side = "right" -> "Right Panel"
                              [] side = "bottom" -> "Bottom Panel"
                       ELSE "Unknown Panel"
      placed == PlaceFingerBoard(props, t, side)
  IN  [componentName |-> componentName,
       joint |-> "finger",
       shape |-> << Point(dimensions.x0, dimensions.y0) >>
                   \o bottomPoints \o rightPoints \o topPoints \o leftPoints,
       extrudeDepth |-> QDiv(QInt(t), Q100),
       geometry |-> NoGeometry,
       position |-> placed.position,
       rotation |-> placed.rotation]

\* ------------------------------------------------------------------- Box
\* props.fingerSize = 0 stands for an absent fingerSize (falsy, like 0); a
\* negative fingerSize is truthy.
\* Box.fingerBoard is << >> when undefined, else << the FingerBoard's props >>.
BoxFingerBoard(props) ==
  IF props.jointType = "finger" /\ props.fingerSize # 0
  THEN << [width |-> props.width, height |-> props.height, depth |-> props.depth,
           thickness |-> props.thickness, fingerSize |-> props.fingerSize] >>
  ELSE << >>

\* the side panels of an open box no taller than those of a closed one
sideHeightClosed(props) == props.height

sideHeight(props) ==
  IF props.boxType = "open" THEN props.height + props.thickness ELSE props.height

\* flatPosition.y of the four vertical panels
FlatSideY(props) ==
  IF props.boxType = "open"
  THEN QDiv(QMul(QInt(props.thickness), Q(3, 2)), QInt(200))
  ELSE QDiv(QInt(props.thickness), QInt(200))

BoxGeometry(gw, gh, gd) ==
  [width |-> QDiv(QInt(gw), Q100), height |-> QDiv(QInt(gh), Q100), depth |-> QDiv(QInt(gd), Q100)]

\* the components array of createMesh, the top panel pushed for closed boxes
Components(props) ==
  LET width == props.width
      height == props.height
      depth == props.depth
      thickness == props.thickness
      sh == sideHeight(props)
      base ==
        << [name |-> "Front Panel", side |-> "front",
            fingerWidth |-> width - 2 * thickness, fingerHeight |-> sh,
            actualWidth |-> width,
            flatGeometry |-> BoxGeometry(width - 2 * thickness, sh - thickness, thickness),
            flatPosition |-> Vec(Zero, FlatSideY(props),
                                 QDiv(QInt(depth - thickness), QInt(200)))],
           [name |-> "Back Panel", side |-> "back",
            fingerWidth |-> width - 2 * thickness, fingerHeight |-> sh,
            actualWidth |-> width,
            flatGeometry |-> BoxGeometry(width - 2 * thickness, sh - thickness, thickness),
            flatPosition |-> Vec(Zero, FlatSideY(props),
                                 QDiv(QInt(-(depth - thickness)), QInt(200)))],
           [name |-> "Left Panel", side |-> "left",
            fingerWidth |-> depth - 2 * thickness, fingerHeight |-> sh,
            actualWidth |-> 0,
            flatGeometry |-> BoxGeometry(thickness, sh - thickness, depth),
            flatPosition |-> Vec(QDiv(QInt(-(width - thickness)), QInt(200)),
                                 FlatSideY(props), Zero)],
           [name |-> "Right Panel", side |-> "right",
            fingerWidth |-> depth - 2 * thickness, fingerHeight |-> sh,
            actualWidth |-> 0,
            flatGeometry |-> BoxGeometry(thickness, sh - thickness, depth),
            flatPosition |-> Vec(QDiv(QInt(width - thickness), QInt(200)),
                                 FlatSideY(props), Zero)],
           [name |-> "Bottom Panel", side |-> "bottom",
            fingerWidth |-> width - 2 * thickness, fingerHeight |-> depth - 2 * thickness,
            actualWidth |-> 0,
            flatGeometry |-> BoxGeometry(width, thickness, depth),
            flatPosition |-> Vec(Zero, QDiv(QInt(-(sh - thickness)), QInt(200)), Zero)] >>
      top ==
        [name |-> "Top Panel", side |-> "top",
         fingerWidth |-> width - 2 * thickness, fingerHeight |-> depth - 2 * thickness,
         actualWidth |-> 0,
         flatGeometry |-> BoxGeometry(width, thickness, depth),
         flatPosition |-> Vec(Zero, QDiv(QInt(height + thickness), QInt(200)), Zero)]
  IN  IF props.boxType = "closed" THEN Append(base, top) ELSE base

\* the position adjustments createMesh applies to a finger-jointed mesh
AdjustFingerMeshNoShift(props, component, mesh) == mesh

AdjustFingerMesh(props, component, mesh) ==
  LET half == QDiv(QInt(props.thickness), QInt(200))
      full == QDiv(QInt(2 * props.thickness), QInt(200))
      y1 == IF props.boxType = "open" /\ component.side = "bottom"
            THEN QSub(mesh.position.y, half) ELSE mesh.position.y
      y2 == IF props.boxType = "closed" /\ component.side = "top"
            THEN QAdd(y1, full) ELSE y1
  IN  [mesh EXCEPT !.position.y = y2]

\* the body of components.forEach: one mesh per component
ComponentMesh(props, fingerBoard, component) ==
  IF /\ props.jointType = "finger"
     /\ props.fingerSize # 0
     /\ props.fingerSize > 0
     /\ fingerBoard # << >>
  THEN [AdjustFingerMesh(props, component,
          createFingerBoard(fingerBoard[1], component.fingerWidth, component.fingerHeight,
                            props.thickness, component.side, props.fingerSize,
                            component.actualWidth))
        EXCEPT !.componentName = component.name]
  ELSE [componentName |-> component.name,
        joint |-> "flat",
        shape |-> << >>,
        extrudeDepth |-> Zero,
        geometry |-> component.flatGeometry,
        position |-> component.flatPosition,
        rotation |-> NoRotation]

\* the forEach stopping one component early
createMeshWithoutLast(props, fingerBoard) ==
  LET components == Components(props)
  IN  [i \in 1..(Len(components) - 1) |-> ComponentMesh(props, fingerBoard, components[i])]

createMesh(props, fingerBoard) ==
  LET components == Components(props)
  IN  [i \in 1..Len(components) |-> ComponentMesh(props, fingerBoard, components[i])]

\* ------------------------------------------------ placed panels in space
Edges == {"top", "right", "bottom", "left"}

\* The world direction a panel-local edge faces after mesh.rotation: a
\* quarter turn about y takes local +x to world -z, a quarter turn about x
\* takes local +y to world +z (and the extrusion axis, local +z, to world -y).
EdgeNormal(rotation, edge) ==
  IF rotation.y = 1
  THEN (CASE edge = "right" -> "-z" [] edge = "left" -> "+z"
          [] edge = "top" -> "+y" [] edge = "bottom" -> "-y")
  ELSE IF rotation.x = 1
  THEN (CASE edge = "top" -> "+z" [] edge = "bottom" -> "-z"
          [] edge = "right" -> "+x" [] edge = "left" -> "-x")
  ELSE (CASE edge = "right" -> "+x" [] edge = "left" -> "-x"
          [] edge = "top" -> "+y" [] edge = "bottom" -> "-y")

\* the face of the box a side's panel is placed on (the sign of its offset)
SideFace(side) ==
  CASE side = "front" -> "+z" [] side = "back" -> "-z"
    [] side = "right" -> "+x" [] side = "left" -> "-x"
    [] side = "top" -> "+y" [] side = "bottom" -> "-y"

\* The world y range of an extruded finger panel lying flat (rotation.x a
\* quarter turn): ExtrudeGeometry spans local z in [0, depth], which the
\* rotation takes to world y in [position.y - depth, position.y].
SlabY(mesh) ==
  [lo |-> QSub(mesh.position.y, mesh.extrudeDepth), hi |-> mesh.position.y]

\* the world y range of a flat panel: BoxGeometry is centred on the position
FlatLowerFace(mesh) == QSub(mesh.position.y, QDiv(mesh.geometry.height, Q2))
FlatUpperFace(mesh) == QAdd(mesh.position.y, QDiv(mesh.geometry.height, Q2))

\* The world x and z ranges of a placed finger panel.  The outline lies in
\* the local xy plane and the extrusion spans local z in [0, depth].
\* Unrotated: world = position + local.  A quarter turn about y takes local
\* +z to world +x and local +x to world -z; a quarter turn about x leaves
\* local x alone and takes local +y to world +z.
ShapeXs(mesh) == { mesh.shape[i].x : i \in DOMAIN mesh.shape }
ShapeYs(mesh) == { mesh.shape[i].y : i \in DOMAIN mesh.shape }
RatMin(S) == CHOOSE v \in S : \A u \in S : QLe(v, u)
RatMax(S) == CHOOSE v \in S : \A u \in S : QLe(u, v)

WorldX(mesh) ==
  IF mesh.rotation.y = 1
  THEN [lo |-> mesh.position.x, hi |-> QAdd(mesh.position.x, mesh.extrudeDepth)]
  ELSE [lo |-> QAdd(mesh.position.x, RatMin(ShapeXs(mesh))),
        hi |-> QAdd(mesh.position.x, RatMax(ShapeXs(mesh)))]

WorldZ(mesh) ==
  IF mesh.rotation.y = 1
  THEN [lo |-> QSub(mesh.position.z, RatMax(ShapeXs(mesh))),
        hi |-> QSub(mesh.position.z, RatMin(ShapeXs(mesh)))]
  ELSE IF mesh.rotation.x = 1
  THEN [lo |-> QAdd(mesh.position.z, RatMin(ShapeYs(mesh))),
        hi |-> QAdd(mesh.position.z, RatMax(ShapeYs(mesh)))]
  ELSE [lo |-> mesh.position.z, hi |-> QAdd(mesh.position.z, mesh.extrudeDepth)]

\* ================================================================= state
VARIABLES
  config,        \* the FingerJointConfig handed to calculateFingerJointDimensions
  dimensions,    \* the FingerJointDimensions it returned
  flags,         \* the isExtended / hasFingers arguments of the four edge calls
  bottomPoints, rightPoints, topPoints, leftPoints,  \* what the generators returned
  pc,            \* which call of the outline comes next
  boxProps,      \* the BoxProps of the Box under construction
  fingerBoard,   \* Box.fingerBoard: << the FingerBoard's props >>, or << >>
  group,         \* the meshes createMesh added to its group, in order
  boxPc,         \* "none", "constructed", "meshed"
  ui,            \* the useState values of the Index page
  scene,         \* BoxViewer: the box groups that are children of the scene
  boxRef,        \* BoxViewer: boxRef.current as an index into scene, 0 for null
  pending,       \* the effects React still has to run for the last commit
  drawn          \* the drawing handleExport serialised in the last step, or << >>

edgeVars == << config, dimensions, flags, bottomPoints, rightPoints, topPoints, leftPoints, pc >>
boxVars == << boxProps, fingerBoard, group, boxPc >>
uiVars == << ui, scene, boxRef, pending, drawn >>
vars == << config, dimensions, flags, bottomPoints, rightPoints, topPoints, leftPoints, pc,
           boxProps, fingerBoard, group, boxPc, ui, scene, boxRef, pending, drawn >>

Configs ==
  [width : 1..MaxDim, height : 1..MaxDim, thickness : 0..MaxThick,
   fingerSize : 1..MaxFinger, actualWidth : 0..(MaxDim + 1)]

BoxPropsSet ==
  [width : 1..MaxBoxDim, height : 1..MaxBoxDim, depth : 1..MaxBoxDim,
   thickness : 0..MaxThick, jointType : {"flat", "finger"},
   boxType : {"open", "closed"}, fingerSize : (-1)..MaxFinger]

NoFlags ==
  [bottomExtended |-> FALSE, topExtended |-> FALSE,
   bottom |-> FALSE, right |-> FALSE, top |-> FALSE, left |-> FALSE]

EdgesIdle ==
  /\ config = "none" /\ dimensions = "none" /\ flags = NoFlags
  /\ bottomPoints = << >> /\ rightPoints = << >>
  /\ topPoints = << >> /\ leftPoints = << >>
  /\ pc = "idle"

BoxIdle ==
  /\ boxProps = "none" /\ fingerBoard = << >> /\ group = << >> /\ boxPc = "none"

NoPending == [viewer |-> FALSE, index |-> FALSE]

UiIdle ==
  /\ ui = "none" /\ scene = << >> /\ boxRef = 0
  /\ pending = NoPending /\ drawn = << >>

\* ------------------------------------------------ the outline, call by call
Init ==
  /\ config \in Configs
  /\ dimensions = "none" /\ flags = NoFlags
  /\ bottomPoints = << >> /\ rightPoints = << >>
  /\ topPoints = << >> /\ leftPoints = << >>
  /\ pc = "calculate"
  /\ BoxIdle /\ UiIdle

Calculate ==
  /\ pc = "calculate"
  /\ dimensions' = calculateFingerJointDimensions(config)
  /\ pc' = "bottom"
  /\ UNCHANGED << config, flags, bottomPoints, rightPoints, topPoints, leftPoints >>
  /\ UNCHANGED boxVars
  /\ UNCHANGED uiVars

GenerateHorizontal ==
  /\ pc \in {"bottom", "top"}
  /\ \E isExtended \in BOOLEAN, hasFingers \in BOOLEAN :
       IF pc = "bottom"
       THEN /\ bottomPoints' = generateHorizontalFingerPoints(dimensions, isExtended, FALSE, hasFingers)
            /\ flags' = [flags EXCEPT !.bottomExtended = isExtended, !.bottom = hasFingers]
            /\ pc' = "right"
            /\ UNCHANGED topPoints
       ELSE /\ topPoints' = generateHorizontalFingerPoints(dimensions, isExtended, TRUE, hasFingers)
            /\ flags' = [flags EXCEPT !.topExtended = isExtended, !.top = hasFingers]
            /\ pc' = "left"
            /\ UNCHANGED bottomPoints
  /\ UNCHANGED << config, dimensions, rightPoints, leftPoints >>
  /\ UNCHANGED boxVars
  /\ UNCHANGED uiVars

\* a vertical generator that writes its running position back into the
\* record it was handed (y0 ends up on the edge's last y)
GenerateVerticalWritingBack ==
  /\ pc \in {"right", "left"}
  /\ \E hasFingers \in BOOLEAN :
       IF pc = "right"
       THEN /\ rightPoints' = generateVerticalFingerPoints(dimensions, TRUE, hasFingers)
            /\ flags' = [flags EXCEPT !.right = hasFingers]
            /\ dimensions' = [dimensions EXCEPT !.y0 = dimensions.y1]
            /\ pc' = "top"
            /\ UNCHANGED leftPoints
       ELSE /\ leftPoints' = generateVerticalFingerPoints(dimensions, FALSE, hasFingers)
            /\ flags' = [flags EXCEPT !.left = hasFingers]
            /\ dimensions' = dimensions
            /\ pc' = "done"
            /\ UNCHANGED rightPoints
  /\ UNCHANGED << config, bottomPoints, topPoints >>
  /\ UNCHANGED boxVars
  /\ UNCHANGED uiVars

GenerateVertical ==
  /\ pc \in {"right", "left"}
  /\ \E hasFingers \in BOOLEAN :
       IF pc = "right"
       THEN /\ rightPoints' = generateVerticalFingerPoints(dimensions, TRUE, hasFingers)
            /\ flags' = [flags EXCEPT !.right = hasFingers]
            /\ pc' = "top"
            /\ UNCHANGED leftPoints
       ELSE /\ leftPoints' = generateVerticalFingerPoints(dimensions, FALSE, hasFingers)
            /\ flags' = [flags EXCEPT !.left = hasFingers]
            /\ pc' = "done"
            /\ UNCHANGED rightPoints
  /\ UNCHANGED << config, dimensions, bottomPoints, topPoints >>
  /\ UNCHANGED boxVars
  /\ UNCHANGED uiVars

Next == Calculate \/ GenerateHorizontal \/ GenerateVertical

Spec == Init /\ [][Next]_vars

\* ------------------------------------------------------- the Box assembler
InitBox == EdgesIdle /\ BoxIdle /\ UiIdle

NewBox ==
  /\ boxPc = "none"
  /\ \E props \in BoxPropsSet :
       /\ boxProps' = props
       /\ fingerBoard' = BoxFingerBoard(props)
  /\ boxPc' = "constructed"
  /\ UNCHANGED group
  /\ UNCHANGED edgeVars
  /\ UNCHANGED uiVars

CreateMesh ==
  /\ boxPc = "constructed"
  /\ group' = createMesh(boxProps, fingerBoard)
  /\ boxPc' = "meshed"
  /\ UNCHANGED << boxProps, fingerBoard >>
  /\ UNCHANGED edgeVars
  /\ UNCHANGED uiVars

NextBox == NewBox \/ CreateMesh

SpecBox == InitBox /\ [][NextBox]_vars

\* ------------------------------------------- the Index page and BoxViewer
\* the largest number typed into a numeric input
MaxInput == 2
\* useState(100) for width, height and depth, useState(10) for thickness
DefaultSide == 100
DefaultThickness == 10

\* Number(e.target.value) of a numeric input: whatever was typed (the empty
\* field gives 0); `min={1}` restrains the browser's spinner, not onChange
InputValues == (0..MaxInput) \cup {DefaultSide}

\* Math.round: the nearest integer, halves rounded up
MathRound(a) == QFloor(QAdd(a, Q(1, 2)))

MinSide(w, h, d) ==
  IF w <= h /\ w <= d THEN w ELSE IF h <= d THEN h ELSE d

\* Math.round(minSide * 0.3)
DefaultFingerSize(w, h, d) ==
  MathRound(QMul(QInt(MinSide(w, h, d)), Q(3, 10)))

\* the body of the fingerSize effect: the value fingerSize has after it
EffectFingerSizeAlways(u) == DefaultFingerSize(u.width, u.height, u.depth)

EffectFingerSize(u) ==
  IF ~u.fingerSizeTouched
  THEN DefaultFingerSize(u.width, u.height, u.depth)
  ELSE u.fingerSize

\* the six boards the update effect of BoxViewer adds to its group, in
\* order: front, back (a clone), left, right (a clone), top, bottom (a clone)
ViewerBoard(geometry, position) == [geometry |-> geometry, position |-> position]
ViewerGroup(width, height, depth, thickness) ==
  LET frontGeometry == BoxGeometry(width, height, thickness)
      leftGeometry == BoxGeometry(thickness, height, depth)
      topGeometry == BoxGeometry(width, thickness, depth)
  IN  << ViewerBoard(frontGeometry, Vec(Zero, Zero, Q(depth, 200))),
         ViewerBoard(frontGeometry, Vec(Zero, Zero, Q(-depth, 200))),
         ViewerBoard(leftGeometry, Vec(Q(-width, 200), Zero, Zero)),
         ViewerBoard(leftGeometry, Vec(Q(width, 200), Zero, Zero)),
         ViewerBoard(topGeometry, Vec(Zero, Q(height, 200), Zero)),
         ViewerBoard(topGeometry, Vec(Zero, Q(-height, 200), Zero)) >>

\* sceneRef.current.remove(boxRef.current): the scene without child `ref`
RemoveBoxNever(children, ref) == children

RemoveBox(children, ref) ==
  IF ref # 0
  THEN [i \in 1..(Len(children) - 1) |->
          IF i < ref THEN children[i] ELSE children[i + 1]]
  ELSE children

\* d.drawRect(0, 0, width, height) after d.setUnits(...)
ExportDrawing(u) ==
  [units |-> IF u.units = "mm" THEN "Millimeters" ELSE "Inches",
   x1 |-> 0, y1 |-> 0, x2 |-> u.width, y2 |-> u.height]

\* the page after its first render, before the effects of the mount ran
InitUi ==
  /\ EdgesIdle /\ BoxIdle
  /\ ui = [width |-> DefaultSide, height |-> DefaultSide, depth |-> DefaultSide,
           thickness |-> DefaultThickness, jointType |-> "flat",
           boxType |-> "closed", units |-> "mm",
           fingerSize |-> DefaultFingerSize(DefaultSide, DefaultSide, DefaultSide),
           fingerSizeTouched |-> FALSE]
  /\ scene = << >> /\ boxRef = 0
  /\ pending = [viewer |-> TRUE, index |-> TRUE]
  /\ drawn = << >>

\* React runs the effects of a commit before it handles the next event
Settled == pending = NoPending

\* onWidthChange / onHeightChange / onDepthChange: a dependency of both the
\* fingerSize effect and BoxViewer's update effect changes
SetWidth ==
  /\ Settled
  /\ \E v \in InputValues :
       /\ v # ui.width
       /\ ui' = [ui EXCEPT !.width = v]
  /\ pending' = [viewer |-> TRUE, index |-> TRUE]
  /\ drawn' = << >>
  /\ UNCHANGED << scene, boxRef >>
  /\ UNCHANGED edgeVars /\ UNCHANGED boxVars

SetHeight ==
  /\ Settled
  /\ \E v \in InputValues :
       /\ v # ui.height
       /\ ui' = [ui EXCEPT !.height = v]
  /\ pending' = [viewer |-> TRUE, index |-> TRUE]
  /\ drawn' = << >>
  /\ UNCHANGED << scene, boxRef >>
  /\ UNCHANGED edgeVars /\ UNCHANGED boxVars

SetDepth ==
  /\ Settled
  /\ \E v \in InputValues :
       /\ v # ui.depth
       /\ ui' = [ui EXCEPT !.depth = v]
  /\ pending' = [viewer |-> TRUE, index |-> TRUE]
  /\ drawn' = << >>
  /\ UNCHANGED << scene, boxRef >>
  /\ UNCHANGED edgeVars /\ UNCHANGED boxVars

\* onThicknessChange: a dependency of BoxViewer's update effect only
SetThickness ==
  /\ Settled
  /\ \E v \in InputValues :
       /\ v # ui.thickness
       /\ ui' = [ui EXCEPT !.thickness = v]
  /\ pending' = [viewer |-> TRUE, index |-> FALSE]
  /\ drawn' = << >>
  /\ UNCHANGED << scene, boxRef >>
  /\ UNCHANGED edgeVars /\ UNCHANGED boxVars

SetJointType ==
  /\ Settled
  /\ ui' = [ui EXCEPT !.jointType = IF @ = "flat" THEN "finger" ELSE "flat"]
  /\ pending' = [viewer |-> TRUE, index |-> FALSE]
  /\ drawn' = << >>
  /\ UNCHANGED << scene, boxRef >>
  /\ UNCHANGED edgeVars /\ UNCHANGED boxVars

\* boxType and units are in no dependency list of an effect
SetBoxType ==
  /\ Settled
  /\ ui' = [ui EXCEPT !.boxType = IF @ = "open" THEN "closed" ELSE "open"]
  /\ drawn' = << >>
  /\ UNCHANGED << scene, boxRef, pending >>
  /\ UNCHANGED edgeVars /\ UNCHANGED boxVars

SetUnits ==
  /\ Settled
  /\ ui' = [ui EXCEPT !.units = IF @ = "mm" THEN "inch" ELSE "mm"]
  /\ drawn' = << >>
  /\ UNCHANGED << scene, boxRef, pending >>
  /\ UNCHANGED edgeVars /\ UNCHANGED boxVars

\* setFingerSize(size); setFingerSizeTouched(true): fingerSizeTouched is a
\* dependency of the fingerSize effect.  BoxControls renders the finger size
\* input only while jointType is "finger".
handleFingerSizeChange ==
  /\ Settled
  /\ ui.jointType = "finger"
  /\ \E size \in InputValues :
       /\ size # ui.fingerSize \/ ~ui.fingerSizeTouched
       /\ ui' = [ui EXCEPT !.fingerSize = size, !.fingerSizeTouched = TRUE]
  /\ pending' = [viewer |-> FALSE, index |-> ~ui.fingerSizeTouched]
  /\ drawn' = << >>
  /\ UNCHANGED << scene, boxRef >>
  /\ UNCHANGED edgeVars /\ UNCHANGED boxVars

\* BoxViewer's "update box dimensions" effect: remove the previous group,
\* build the six boards, keep the new group in boxRef and add it to the scene
UpdateBox ==
  /\ pending.viewer
  /\ LET kept == RemoveBox(scene, boxRef)
         built == [boards |-> ViewerGroup(ui.width, ui.height, ui.depth, ui.thickness)]
     IN  /\ scene' = Append(kept, built)
         /\ boxRef' = Len(kept) + 1
  /\ pending' = [pending EXCEPT !.viewer = FALSE]
  /\ UNCHANGED << ui, drawn >>
  /\ UNCHANGED edgeVars /\ UNCHANGED boxVars

\* the fingerSize effect of Index; a child's effects run before its parent's
UpdateFingerSize ==
  /\ pending.index /\ ~pending.viewer
  /\ ui' = [ui EXCEPT !.fingerSize = EffectFingerSize(ui)]
  /\ pending' = [pending EXCEPT !.index = FALSE]
  /\ UNCHANGED << scene, boxRef, drawn >>
  /\ UNCHANGED edgeVars /\ UNCHANGED boxVars

handleExport ==
  /\ Settled
  /\ drawn' = << ExportDrawing(ui) >>
  /\ UNCHANGED << ui, scene, boxRef, pending >>
  /\ UNCHANGED edgeVars /\ UNCHANGED boxVars

NextUi ==
  \/ SetWidth \/ SetHeight \/ SetDepth \/ SetThickness
  \/ SetJointType \/ SetBoxType \/ SetUnits
  \/ handleFingerSizeChange \/ UpdateBox \/ UpdateFingerSize \/ handleExport

SpecUi == InitUi /\ [][NextUi]_vars

\* ================================================================ claims
\* which edges of the outline have been generated so far
BottomDone == pc \in {"right", "top", "left", "done"}
RightDone == pc \in {"top", "left", "done"}
TopDone == pc \in {"left", "done"}
LeftDone == pc = "done"

\* the outline as createFingerBoard draws it: moveTo(x0, y0), then every
\* point of the edges generated so far
Outline ==
  << Point(dimensions.x0, dimensions.y0) >>
    \o bottomPoints \o rightPoints \o topPoints \o leftPoints

\* C1: for every dimension record and every choice of the flags, the last
\* point of each edge is exactly the next corner: bottom ends at (x1, y0),
\* right at (x1, y1), top at (x0, y1), left at (x0, y0); so the outline that
\* starts at (x0, y0) returns to (x0, y0).
C1_EdgesEndOnNextCorner ==
  /\ BottomDone => Last(bottomPoints) = Point(dimensions.x1, dimensions.y0)
  /\ RightDone => Last(rightPoints) = Point(dimensions.x1, dimensions.y1)
  /\ TopDone => Last(topPoints) = Point(dimensions.x0, dimensions.y1)
  /\ LeftDone => /\ Last(leftPoints) = Point(dimensions.x0, dimensions.y0)
                 /\ Last(Outline) = Outline[1]

C1_Witness ==
  /\ pc = "done"
  /\ flags.bottomExtended /\ flags.topExtended
  /\ config.actualWidth > config.width
  /\ dimensions.countX >= 2
  /\ Last(Outline) = Point(dimensions.x0, dimensions.y0)

\* C2 as stated: every edge's first point is the corner where it starts, so
\* the last point of one edge equals the first point of the next.
C2_FirstPointIsStartCorner ==
  pc = "done" =>
    /\ bottomPoints[1] = Point(dimensions.x0, dimensions.y0)
    /\ Last(bottomPoints) = rightPoints[1]
    /\ Last(rightPoints) = topPoints[1]
    /\ Last(topPoints) = leftPoints[1]

\* C2 (amended): every edge is drawn from the corner where it starts, which
\* is the outline's moveTo point or the last point of the previous edge, and
\* its own first point is the end of the leading gap on the edge's base line:
\* bottom (x0 + fingerWidth, y0), or (fingerStartX, y0) when extended; right
\* (x1, y0 + fingerHeight); top (x1 - fingerWidth, y1), or (fingerStartX +
\* fingerAreaWidth - fingerWidth, y1) when extended; left (x0, y1 - fingerHeight).
C2_EdgesStartOneGapPastCorner ==
  /\ BottomDone =>
       /\ Outline[1] = Point(dimensions.x0, dimensions.y0)
       /\ bottomPoints[1] =
            IF flags.bottomExtended
            THEN Point(dimensions.fingerStartX, dimensions.y0)
            ELSE Point(QAdd(dimensions.x0, dimensions.fingerWidth), dimensions.y0)
  /\ RightDone =>
       /\ Last(bottomPoints) = Point(dimensions.x1, dimensions.y0)
       /\ rightPoints[1] =
            Point(dimensions.x1, QAdd(dimensions.y0, dimensions.fingerHeight))
  /\ TopDone =>
       /\ Last(rightPoints) = Point(dimensions.x1, dimensions.y1)
       /\ topPoints[1] =
            IF flags.topExtended
            THEN Point(QSub(QAdd(dimensions.fingerStartX, dimensions.fingerAreaWidth),
                            dimensions.fingerWidth), dimensions.y1)
            ELSE Point(QSub(dimensions.x1, dimensions.fingerWidth), dimensions.y1)
  /\ LeftDone =>
       /\ Last(topPoints) = Point(dimensions.x0, dimensions.y1)
       /\ leftPoints[1] =
            Point(dimensions.x0, QSub(dimensions.y1, dimensions.fingerHeight))

C2_Witness ==
  /\ pc = "done"
  /\ bottomPoints[1] # Point(dimensions.x0, dimensions.y0)
  /\ rightPoints[1] # Last(bottomPoints)
  /\ topPoints[1] # Last(rightPoints)
  /\ leftPoints[1] # Last(topPoints)
  /\ flags.topExtended /\ config.actualWidth > config.width

\* c is max(1, floor((dimension + f) / (2 f))), stated on the integers
IsFingerCount(c, dimension, f) ==
  \/ c = 1 /\ dimension + f < 2 * f
  \/ c >= 1 /\ 2 * f * c <= dimension + f /\ dimension + f < 2 * f * (c + 1)

\* C3: countX = max(1, floor((w + f) / (2 f))) and countY = max(1, floor((h +
\* f) / (2 f))); both are >= 1 and depend only on w (resp. h) and f, whatever
\* the thickness and actualWidth are.
C3_FingerCounts ==
  pc # "calculate" =>
    /\ dimensions.countX >= 1 /\ dimensions.countY >= 1
    /\ IsFingerCount(dimensions.countX, config.width, config.fingerSize)
    /\ IsFingerCount(dimensions.countY, config.height, config.fingerSize)
    /\ pc = "bottom" =>
         \A other \in Configs :
           LET d == calculateFingerJointDimensions(other)
           IN  /\ (other.width = config.width /\ other.fingerSize = config.fingerSize)
                    => d.countX = dimensions.countX
               /\ (other.height = config.height /\ other.fingerSize = config.fingerSize)
                    => d.countY = dimensions.countY

C3_Witness ==
  /\ pc = "bottom"
  /\ config.width < config.fingerSize /\ dimensions.countX = 1
  /\ config.height > config.fingerSize /\ dimensions.countY = 1
  /\ config.thickness > 0 /\ config.actualWidth > config.width

\* C4: each axis of the finger-bearing span is cut into 2 * count + 1 equal
\* segments: (2 countX + 1) * fingerWidth = fingerAreaWidth = w / 100 and
\* (2 countY + 1) * fingerHeight = y1 - y0 = h / 100.
C4_EqualSegments ==
  pc # "calculate" =>
    /\ QMul(QInt(2 * dimensions.countX + 1), dimensions.fingerWidth)
         = dimensions.fingerAreaWidth
    /\ dimensions.fingerAreaWidth = Q(config.width, 100)
    /\ QMul(QInt(2 * dimensions.countY + 1), dimensions.fingerHeight)
         = QSub(dimensions.y1, dimensions.y0)
    /\ QSub(dimensions.y1, dimensions.y0) = Q(config.height, 100)

C4_Witness ==
  /\ pc = "bottom"
  /\ dimensions.countX >= 2 /\ dimensions.countY = 1
  /\ config.actualWidth > config.width

\* some point of the sequence has the given x (resp. y)
SomeX(points, v) == \E i \in 1..Len(points) : points[i].x = v
SomeY(points, v) == \E i \in 1..Len(points) : points[i].y = v

\* C5: with hasFingers some point lies outside the edge's base line by
\* exactly tScaled (bottom y0 - tScaled, top y1 + tScaled, right x1 +
\* tScaled, left x0 - tScaled); without, some point lies inside it by
\* exactly tScaled.
C5_ToothPolarity ==
  /\ BottomDone =>
       SomeY(bottomPoints, IF flags.bottom
                           THEN QSub(dimensions.y0, dimensions.tScaled)
                           ELSE QAdd(dimensions.y0, dimensions.tScaled))
  /\ RightDone =>
       SomeX(rightPoints, IF flags.right
                          THEN QAdd(dimensions.x1, dimensions.tScaled)
                          ELSE QSub(dimensions.x1, dimensions.tScaled))
  /\ TopDone =>
       SomeY(topPoints, IF flags.top
                        THEN QAdd(dimensions.y1, dimensions.tScaled)
                        ELSE QSub(dimensions.y1, dimensions.tScaled))
  /\ LeftDone =>
       SomeX(leftPoints, IF flags.left
                         THEN QSub(dimensions.x0, dimensions.tScaled)
                         ELSE QAdd(dimensions.x0, dimensions.tScaled))

C5_Witness ==
  /\ pc = "done"
  /\ config.thickness > 0
  /\ flags.bottom /\ ~flags.top /\ flags.right /\ ~flags.left
  /\ \E i \in 1..Len(bottomPoints) : QLt(bottomPoints[i].y, dimensions.y0)
  /\ \E i \in 1..Len(leftPoints) : QLt(dimensions.x0, leftPoints[i].x)

\* exactly one coordinate differs: an axis-aligned segment of non-zero length
AxisStep(p, q) == (p.x = q.x) # (p.y = q.y)
AxisAlignedPath(points) ==
  \A i \in 1..(Len(points) - 1) : AxisStep(points[i], points[i + 1])

\* valid inputs of the generators: a positive thickness, an actualWidth that
\* is absent or at least the width, and isExtended only for a panel that is
\* wider than its finger-bearing span
ValidEdgeCalls ==
  /\ config.thickness > 0
  /\ config.actualWidth = 0 \/ config.actualWidth >= config.width
  /\ flags.bottomExtended => config.actualWidth > config.width
  /\ flags.topExtended => config.actualWidth > config.width

\* C10: for valid inputs, in each edge's point sequence and in the outline
\* (x0, y0), bottom, right, top, left, two consecutive points differ in
\* exactly one coordinate.
C10_AxisAlignedSegments ==
  (pc # "calculate" /\ ValidEdgeCalls) =>
    /\ AxisAlignedPath(bottomPoints) /\ AxisAlignedPath(rightPoints)
    /\ AxisAlignedPath(topPoints) /\ AxisAlignedPath(leftPoints)
    /\ AxisAlignedPath(Outline)

C10_Witness ==
  /\ pc = "done" /\ ValidEdgeCalls
  /\ flags.bottomExtended /\ flags.topExtended
  /\ dimensions.countX >= 2 /\ dimensions.countY >= 2
  /\ Len(Outline) = 1 + Len(bottomPoints) + Len(rightPoints) + Len(topPoints) + Len(leftPoints)
  /\ Len(bottomPoints) = 10

\* ------------------------------------------------------ claims on the Box
QMin(a, b) == IF QLe(a, b) THEN a ELSE b
QMax(a, b) == IF QLe(a, b) THEN b ELSE a

HasMesh(name) == \E i \in DOMAIN group : group[i].componentName = name
MeshNamed(name) == group[CHOOSE i \in DOMAIN group : group[i].componentName = name]
VerticalPanels == {"Front Panel", "Back Panel", "Left Panel", "Right Panel"}

\* createMesh has run and built every panel with finger joints (resp. flat)
FingerBuilt ==
  /\ boxPc = "meshed"
  /\ \A i \in DOMAIN group : group[i].joint = "finger"
FlatBuilt ==
  /\ boxPc = "meshed"
  /\ boxProps.jointType = "flat"
  /\ \A i \in DOMAIN group : group[i].joint = "flat"

\* a valid BoxSpec: positive dimensions, 0 < thickness < min(w, h, d) / 2
ValidBoxSpec(props) ==
  /\ props.width > 0 /\ props.height > 0 /\ props.depth > 0
  /\ props.thickness > 0
  /\ 2 * props.thickness < props.width
  /\ 2 * props.thickness < props.height
  /\ 2 * props.thickness < props.depth

\* the side a mesh was built for, read off the name createMesh gave it
SideOf(mesh) ==
  CASE mesh.componentName = "Front Panel" -> "front"
    [] mesh.componentName = "Back Panel" -> "back"
    [] mesh.componentName = "Left Panel" -> "left"
    [] mesh.componentName = "Right Panel" -> "right"
    [] mesh.componentName = "Bottom Panel" -> "bottom"
    [] mesh.componentName = "Top Panel" -> "top"

\* panel i's edge a and panel j's edge b lie on the same physical edge of the
\* assembled box: each faces the face the other panel is placed on
SharesEdge(i, a, j, b) ==
  /\ i # j
  /\ EdgeNormal(group[i].rotation, a) = SideFace(SideOf(group[j]))
  /\ EdgeNormal(group[j].rotation, b) = SideFace(SideOf(group[i]))

SharedEdges ==
  { q \in (DOMAIN group) \X Edges \X (DOMAIN group) \X Edges :
      SharesEdge(q[1], q[2], q[3], q[4]) }

\* C6: in the joint pattern table, for every two panels that share a
\* physical edge of the assembled box, exactly one has teeth and the other
\* has slots on that edge.
C6_ComplementaryPatterns ==
  FingerBuilt =>
    \A q \in SharedEdges :
      getFingerPatterns(SideOf(group[q[1]]))[q[2]]
        # getFingerPatterns(SideOf(group[q[3]]))[q[4]]

\* a closed box has 12 physical edges, each seen from both of its panels
C6_Witness ==
  /\ FingerBuilt
  /\ boxProps.boxType = "closed" /\ Len(group) = 6
  /\ ValidBoxSpec(boxProps)
  /\ Cardinality(SharedEdges) = 24

SetMin(S) == CHOOSE v \in S : \A u \in S : QLe(v, u)
SetMax(S) == CHOOSE v \in S : \A u \in S : QLe(u, v)
\* the world y extent of an upright finger panel's outline
OutlineLowY(mesh) ==
  QAdd(mesh.position.y, SetMin({ mesh.shape[i].y : i \in DOMAIN mesh.shape }))
OutlineHighY(mesh) ==
  QAdd(mesh.position.y, SetMax({ mesh.shape[i].y : i \in DOMAIN mesh.shape }))

\* C7: in finger mode, for both box types, the bottom panel's slab is exactly
\* the band [ymin, ymin + thickness] of the side panels, ymin = -sideHeight/2
\* being their lower end; for a closed box the top panel's slab is exactly
\* the band [ymax - thickness, ymax], ymax = +height/2 (all over 100).
C7_HorizontalPanelsMeetSides ==
  FingerBuilt =>
    LET ymin == Q(-sideHeight(boxProps), 200)
        ymax == Q(boxProps.height, 200)
        t == Q(boxProps.thickness, 100)
    IN  /\ MeshNamed("Bottom Panel").rotation.x = 1
        /\ SlabY(MeshNamed("Bottom Panel")) = [lo |-> ymin, hi |-> QAdd(ymin, t)]
        /\ boxProps.boxType = "closed" =>
             /\ MeshNamed("Top Panel").rotation.x = 1
             /\ SlabY(MeshNamed("Top Panel")) = [lo |-> QSub(ymax, t), hi |-> ymax]
        \* ymin and ymax are the ends of the side panels (of a valid box, whose
        \* slots are shallower than the panel is high)
        /\ ValidBoxSpec(boxProps) =>
             \A name \in VerticalPanels :
               /\ OutlineLowY(MeshNamed(name)) = ymin
               /\ boxProps.boxType = "closed" => OutlineHighY(MeshNamed(name)) = ymax

C7_Witness ==
  /\ FingerBuilt /\ ValidBoxSpec(boxProps)
  /\ boxProps.boxType = "open" /\ ~HasMesh("Top Panel")
  /\ SlabY(MeshNamed("Bottom Panel")).lo = OutlineLowY(MeshNamed("Front Panel"))

\* C8: in flat mode, for both box types, the lower face of each of the four
\* side panels equals the upper face of the bottom panel, and for a closed
\* box the upper face of each side panel equals the lower face of the top.
C8_FlatPanelsButt ==
  FlatBuilt =>
    \A name \in VerticalPanels :
      /\ FlatLowerFace(MeshNamed(name)) = FlatUpperFace(MeshNamed("Bottom Panel"))
      /\ boxProps.boxType = "closed" =>
           FlatUpperFace(MeshNamed(name)) = FlatLowerFace(MeshNamed("Top Panel"))

\* the part of C8 the closed box satisfies
C8_ClosedFlatPanelsButt ==
  (FlatBuilt /\ boxProps.boxType = "closed") =>
    \A name \in VerticalPanels :
      /\ FlatLowerFace(MeshNamed(name)) = FlatUpperFace(MeshNamed("Bottom Panel"))
      /\ FlatUpperFace(MeshNamed(name)) = FlatLowerFace(MeshNamed("Top Panel"))

\* two axis-aligned segments p1-p2 and q1-q2 have a point in common exactly
\* when their bounding boxes do
SegmentsMeet(p1, p2, q1, q2) ==
  /\ QLe(QMax(QMin(p1.x, p2.x), QMin(q1.x, q2.x)), QMin(QMax(p1.x, p2.x), QMax(q1.x, q2.x)))
  /\ QLe(QMax(QMin(p1.y, p2.y), QMin(q1.y, q2.y)), QMin(QMax(p1.y, p2.y), QMax(q1.y, q2.y)))

\* two axis-aligned segments have more than one point in common
SegmentsOverlap(p1, p2, q1, q2) ==
  /\ SegmentsMeet(p1, p2, q1, q2)
  /\ \/ QLt(QMax(QMin(p1.x, p2.x), QMin(q1.x, q2.x)), QMin(QMax(p1.x, p2.x), QMax(q1.x, q2.x)))
     \/ QLt(QMax(QMin(p1.y, p2.y), QMin(q1.y, q2.y)), QMin(QMax(p1.y, p2.y), QMax(q1.y, q2.y)))

\* shape is a closed path of axis-aligned segments; segment i runs from
\* shape[i] to shape[i + 1]; segments i and i + 1, and the last and the
\* first, are adjacent
SimplePolygon(shape) ==
  LET n == Len(shape) - 1
  IN  /\ n >= 4
      /\ shape[n + 1] = shape[1]
      /\ AxisAlignedPath(shape)
      /\ \A i \in 1..n : \A j \in (i + 1)..n :
           IF j = i + 1 \/ (i = 1 /\ j = n)
           THEN ~SegmentsOverlap(shape[i], shape[i + 1], shape[j], shape[j + 1])
           ELSE ~SegmentsMeet(shape[i], shape[i + 1], shape[j], shape[j + 1])

\* C9: for every panel Box builds in finger mode from a valid BoxSpec, the
\* outline (x0, y0), bottom, right, top, left is a simple polygon: no two
\* non-adjacent segments intersect or overlap (and adjacent ones only touch).
C9_OutlinesAreSimple ==
  (/\ boxPc = "meshed" /\ ValidBoxSpec(boxProps)
   /\ boxProps.jointType = "finger" /\ boxProps.fingerSize > 0) =>
    \A i \in DOMAIN group :
      /\ group[i].joint = "finger"
      /\ SimplePolygon(group[i].shape)

C9_Witness ==
  /\ boxPc = "meshed" /\ ValidBoxSpec(boxProps)
  /\ boxProps.jointType = "finger" /\ boxProps.fingerSize = 1
  /\ boxProps.boxType = "closed" /\ Len(group) = 6
  /\ boxProps.width = 5 /\ boxProps.height = 5
  /\ Len(MeshNamed("Front Panel").shape) > 30
  /\ SimplePolygon(MeshNamed("Front Panel").shape)

\* the names of the panels createMesh added to the group, in order
PanelNames == [i \in DOMAIN group |-> group[i].componentName]
ClosedPanels ==
  << "Front Panel", "Back Panel", "Left Panel", "Right Panel", "Bottom Panel", "Top Panel" >>
OpenPanels ==
  << "Front Panel", "Back Panel", "Left Panel", "Right Panel", "Bottom Panel" >>

\* C11: createMesh returns exactly 6 panels for a closed box (front, back,
\* left, right, bottom, top, one each) and exactly 5 for an open box (the
\* same without top), whether the panels are built flat or with finger
\* joints; a finger panel sits where its side says (the top and bottom
\* panels lie flat, the others stand).
C11_PanelCount ==
  boxPc = "meshed" =>
    /\ boxProps.boxType = "closed" => Len(group) = 6 /\ PanelNames = ClosedPanels
    /\ boxProps.boxType = "open" => Len(group) = 5 /\ PanelNames = OpenPanels
    /\ \A i \in DOMAIN group :
         group[i].joint = "finger" =>
           (group[i].rotation.x = 1 <=> group[i].componentName \in {"Bottom Panel", "Top Panel"})

\* an open box built with finger joints: five panels, none of them the top
C11_Witness ==
  /\ FingerBuilt /\ boxProps.boxType = "open"
  /\ Len(group) = 5 /\ ~HasMesh("Top Panel") /\ HasMesh("Bottom Panel")

\* The nominal size of a panel.  A finger panel's outline is drawn around
\* the rectangle [x0, x1] x [y0, y1] centred on the origin and starts at
\* (x0, y0), so the rectangle is -2 * x0 wide and -2 * y0 high; a flat
\* panel is its BoxGeometry.
PanelSize(mesh) ==
  IF mesh.joint = "finger"
  THEN [width |-> QMul(QInt(-2), mesh.shape[1].x),
        height |-> QMul(QInt(-2), mesh.shape[1].y),
        depth |-> mesh.extrudeDepth]
  ELSE mesh.geometry

\* the group createMesh returns for the same box built closed
BuiltClosed ==
  LET closedProps == [boxProps EXCEPT !.boxType = "closed"]
  IN  createMesh(closedProps, BoxFingerBoard(closedProps))

\* C12: for the same width, height, depth and thickness, the front, back,
\* left and right panels of an open box are exactly one thickness taller
\* than those of the closed box and otherwise the same size: (height +
\* thickness) / 100 against height / 100 with finger joints, height / 100
\* against (height - thickness) / 100 flat; the bottom panel has the same
\* size in both.
C12_OpenSidesOneThicknessTaller ==
  (boxPc = "meshed" /\ boxProps.boxType = "open") =>
    LET closed == BuiltClosed
        t == QDiv(QInt(boxProps.thickness), Q100)
        h == QDiv(QInt(boxProps.height), Q100)
    IN  /\ \A i \in 1..5 :
             /\ group[i].componentName = closed[i].componentName
             /\ group[i].joint = closed[i].joint
        /\ \A i \in 1..4 :
             /\ group[i].componentName \in VerticalPanels
             /\ PanelSize(group[i]).height = QAdd(PanelSize(closed[i]).height, t)
             /\ PanelSize(group[i]).width = PanelSize(closed[i]).width
             /\ PanelSize(group[i]).depth = PanelSize(closed[i]).depth
             /\ PanelSize(closed[i]).height =
                  IF group[i].joint = "finger" THEN h ELSE QSub(h, t)
        /\ group[5].componentName = "Bottom Panel"
        /\ PanelSize(group[5]) = PanelSize(closed[5])

\* an open box with a positive thickness, built with finger joints
C12_Witness ==
  /\ FingerBuilt /\ boxProps.boxType = "open" /\ boxProps.thickness > 0
  /\ PanelSize(MeshNamed("Front Panel")).height
       = QDiv(QInt(boxProps.height + boxProps.thickness), Q100)
  /\ PanelSize(MeshNamed("Front Panel")).height # PanelSize(BuiltClosed[1]).height

\* ------------------------------------------------ claims on the generators
\* every point of the sequence has the given x (resp. y)
AllX(points, v) == \A i \in 1..Len(points) : points[i].x = v
AllY(points, v) == \A i \in 1..Len(points) : points[i].y = v
\* every coordinate is a number: a quotient by zero would leave d = 0
Finite(points) ==
  \A i \in 1..Len(points) : points[i].x.d > 0 /\ points[i].y.d > 0

\* C13: with thickness = 0 the calculator returns tScaled = 0 and, for
\* either polarity, every point of an edge lies on the edge's base line
\* (bottom on y0, right on x1, top on y1, left on x0); the sequence is not
\* empty, its coordinates are finite and it ends on the edge's corner.
C13_ZeroThicknessDegenerates ==
  (config.thickness = 0 /\ pc # "calculate") =>
    /\ dimensions.tScaled = Zero
    /\ BottomDone =>
         /\ Len(bottomPoints) > 0 /\ Finite(bottomPoints)
         /\ AllY(bottomPoints, dimensions.y0)
         /\ Last(bottomPoints) = Point(dimensions.x1, dimensions.y0)
    /\ RightDone =>
         /\ Len(rightPoints) > 0 /\ Finite(rightPoints)
         /\ AllX(rightPoints, dimensions.x1)
         /\ Last(rightPoints) = Point(dimensions.x1, dimensions.y1)
    /\ TopDone =>
         /\ Len(topPoints) > 0 /\ Finite(topPoints)
         /\ AllY(topPoints, dimensions.y1)
         /\ Last(topPoints) = Point(dimensions.x0, dimensions.y1)
    /\ LeftDone =>
         /\ Len(leftPoints) > 0 /\ Finite(leftPoints)
         /\ AllX(leftPoints, dimensions.x0)
         /\ Last(leftPoints) = Point(dimensions.x0, dimensions.y0)

\* a zero-thickness outline with both polarities and more than one tooth
C13_Witness ==
  /\ pc = "done" /\ config.thickness = 0
  /\ flags.bottom /\ ~flags.top /\ flags.right /\ ~flags.left
  /\ dimensions.countX >= 2 /\ dimensions.countY >= 2
  /\ Len(bottomPoints) >= 9 /\ AllY(bottomPoints, dimensions.y0)

\* what the calculator returns for the same panel with finger size f
WithFingerSize(f) ==
  calculateFingerJointDimensions([config EXCEPT !.fingerSize = f])

\* C14: for a fixed width and height and finger sizes f1 <= f2 (f1 the
\* configured one, both positive), the smaller finger size gives at least as
\* many teeth on each axis and segments that are no longer:
\* countX(f1) >= countX(f2), countY(f1) >= countY(f2),
\* fingerWidth(f1) <= fingerWidth(f2), fingerHeight(f1) <= fingerHeight(f2).
C14_MonotonicToothDensity ==
  pc # "calculate" =>
    \A f2 \in config.fingerSize..(MaxFinger + MaxDim) :
      LET other == WithFingerSize(f2)
      IN  /\ dimensions.countX >= other.countX
          /\ dimensions.countY >= other.countY
          /\ QLe(dimensions.fingerWidth, other.fingerWidth)
          /\ QLe(dimensions.fingerHeight, other.fingerHeight)

\* a panel on which the larger finger size strictly lowers the tooth count
\* and strictly lengthens the segment
C14_Witness ==
  /\ pc # "calculate" /\ config.fingerSize < MaxFinger
  /\ dimensions.countX > WithFingerSize(MaxFinger).countX
  /\ QLt(dimensions.fingerWidth, WithFingerSize(MaxFinger).fingerWidth)
  /\ dimensions.countY = WithFingerSize(MaxFinger).countY

\* the panel width the corners are meant to span: actualWidth when it is
\* provided and greater than the width, the width otherwise
IntendedPanelWidth ==
  IF config.actualWidth # 0 /\ config.actualWidth > config.width
  THEN config.actualWidth ELSE config.width

\* C15: the calculator places the corners at x0 = -panelWidth / 200,
\* x1 = panelWidth / 200, y0 = -height / 200, y1 = height / 200, where
\* panelWidth is actualWidth if it is provided and greater than the width,
\* and the width otherwise.
C15_PanelCorners ==
  pc # "calculate" =>
    /\ dimensions.x0 = Q(-IntendedPanelWidth, 200)
    /\ dimensions.x1 = Q(IntendedPanelWidth, 200)
    /\ dimensions.y0 = Q(-config.height, 200)
    /\ dimensions.y1 = Q(config.height, 200)

\* C16: for an extended panel (actualWidth > width) the finger-bearing
\* region is centred in the panel: fingerAreaWidth = width / 100 and
\* fingerStartX - x0 = x1 - (fingerStartX + fingerAreaWidth)
\* = (actualWidth - width) / 200; for a panel that is not extended
\* fingerStartX = x0.
C16_FingerRegionCentred ==
  pc # "calculate" =>
    /\ dimensions.fingerAreaWidth = Q(config.width, 100)
    /\ IF config.actualWidth > config.width
       THEN /\ QSub(dimensions.fingerStartX, dimensions.x0)
                 = Q(config.actualWidth - config.width, 200)
            /\ QSub(dimensions.x1, QAdd(dimensions.fingerStartX, dimensions.fingerAreaWidth))
                 = Q(config.actualWidth - config.width, 200)
       ELSE dimensions.fingerStartX = dimensions.x0

\* C17: when the generators are called for a panel that is not extended,
\* the first point of each edge is the end of the leading gap, where the
\* first tooth or slot begins: on the base line, exactly one segment length
\* from the edge's starting corner.  Bottom (x0 + fingerWidth, y0), right
\* (x1, y0 + fingerHeight), strictly above y0, top (x1 - fingerWidth, y1),
\* left (x0, y1 - fingerHeight), strictly below y1.
C17_FirstPointEndsLeadingGap ==
  /\ (BottomDone /\ ~flags.bottomExtended) =>
       /\ bottomPoints[1].y = dimensions.y0
       /\ QSub(bottomPoints[1].x, dimensions.x0) = dimensions.fingerWidth
       /\ QLt(dimensions.x0, bottomPoints[1].x)
       /\ bottomPoints[2].x = bottomPoints[1].x
  /\ RightDone =>
       /\ rightPoints[1].x = dimensions.x1
       /\ QSub(rightPoints[1].y, dimensions.y0) = dimensions.fingerHeight
       /\ QLt(dimensions.y0, rightPoints[1].y)
       /\ rightPoints[2].y = rightPoints[1].y
  /\ (TopDone /\ ~flags.topExtended) =>
       /\ topPoints[1].y = dimensions.y1
       /\ QSub(dimensions.x1, topPoints[1].x) = dimensions.fingerWidth
       /\ QLt(topPoints[1].x, dimensions.x1)
       /\ topPoints[2].x = topPoints[1].x
  /\ LeftDone =>
       /\ leftPoints[1].x = dimensions.x0
       /\ QSub(dimensions.y1, leftPoints[1].y) = dimensions.fingerHeight
       /\ QLt(leftPoints[1].y, dimensions.y1)
       /\ leftPoints[2].y = leftPoints[1].y

\* a panel without actualWidth whose four edges were generated not extended
C17_Witness ==
  /\ pc = "done" /\ config.actualWidth = 0
  /\ ~flags.bottomExtended /\ ~flags.topExtended
  /\ dimensions.countX >= 2
  /\ bottomPoints[1] = Point(QAdd(dimensions.x0, dimensions.fingerWidth), dimensions.y0)
  /\ leftPoints[1] = Point(dimensions.x0, QSub(dimensions.y1, dimensions.fingerHeight))

\* the points of a horizontal edge that are displaced from its base line
Displaced(points, yPos) == {i \in 1..Len(points) : points[i].y # yPos}
\* every displaced point has its x inside the finger-bearing region
DisplacedInFingerArea(points, yPos) ==
  \A i \in Displaced(points, yPos) :
    /\ QLe(dimensions.fingerStartX, points[i].x)
    /\ QLe(points[i].x, QAdd(dimensions.fingerStartX, dimensions.fingerAreaWidth))

\* C18: for an extended panel (actualWidth > width, the edges generated with
\* isExtended) the bottom edge's first point is (fingerStartX, y0), its
\* last point is the outer corner (x1, y0), the top edge's last point is
\* (x0, y1), and every point displaced from the base line has its x in
\* [fingerStartX, fingerStartX + fingerAreaWidth]: the margins are flat.
C18_ExtendedMarginsFlat ==
  config.actualWidth > config.width =>
    /\ (BottomDone /\ flags.bottomExtended) =>
         /\ bottomPoints[1] = Point(dimensions.fingerStartX, dimensions.y0)
         /\ Last(bottomPoints) = Point(dimensions.x1, dimensions.y0)
         /\ DisplacedInFingerArea(bottomPoints, dimensions.y0)
    /\ (TopDone /\ flags.topExtended) =>
         /\ Last(topPoints) = Point(dimensions.x0, dimensions.y1)
         /\ DisplacedInFingerArea(topPoints, dimensions.y1)

\* an extended panel with teeth below and slots above, two teeth per edge,
\* and margins that are wider than the flat runs inside the finger region
C18_Witness ==
  /\ pc = "done" /\ config.actualWidth > config.width /\ config.thickness > 0
  /\ flags.bottomExtended /\ flags.topExtended /\ flags.bottom /\ ~flags.top
  /\ dimensions.countX >= 2
  /\ Cardinality(Displaced(bottomPoints, dimensions.y0)) = 2 * dimensions.countX
  /\ Cardinality(Displaced(topPoints, dimensions.y1)) = 2 * dimensions.countX
  /\ QLt(dimensions.x0, dimensions.fingerStartX)

\* the point lies in the panel's rectangle [x0, x1] x [y0, y1]
InRectangle(p) ==
  /\ QLe(dimensions.x0, p.x) /\ QLe(p.x, dimensions.x1)
  /\ QLe(dimensions.y0, p.y) /\ QLe(p.y, dimensions.y1)
AllInRectangle(points) == \A i \in 1..Len(points) : InRectangle(points[i])

\* every point of a horizontal (vertical) edge has its y (x) on the base
\* line or on the line displaced from it by exactly d, and some point is
\* displaced
DisplacedY(points, base, d) ==
  /\ \A i \in 1..Len(points) : points[i].y \in {base, QAdd(base, d)}
  /\ SomeY(points, QAdd(base, d))
DisplacedX(points, base, d) ==
  /\ \A i \in 1..Len(points) : points[i].x \in {base, QAdd(base, d)}
  /\ SomeX(points, QAdd(base, d))

\* C19: every point of an edge is on the edge's base line or displaced
\* from it, perpendicular to the edge, by exactly tScaled: outward with
\* fingers (so the extreme coordinate of the edge is base -/+ tScaled, the
\* largest x of the right edge x1 + tScaled), inward with slots; and with
\* slots no point of the edge leaves the rectangle [x0, x1] x [y0, y1].
C19_DisplacedByThickness ==
  LET t == dimensions.tScaled
  IN  /\ BottomDone =>
           /\ DisplacedY(bottomPoints, dimensions.y0, IF flags.bottom THEN QNeg(t) ELSE t)
           /\ ~flags.bottom => AllInRectangle(bottomPoints)
      /\ RightDone =>
           /\ DisplacedX(rightPoints, dimensions.x1, IF flags.right THEN t ELSE QNeg(t))
           /\ ~flags.right => AllInRectangle(rightPoints)
      /\ TopDone =>
           /\ DisplacedY(topPoints, dimensions.y1, IF flags.top THEN t ELSE QNeg(t))
           /\ ~flags.top => AllInRectangle(topPoints)
      /\ LeftDone =>
           /\ DisplacedX(leftPoints, dimensions.x0, IF flags.left THEN QNeg(t) ELSE t)
           /\ ~flags.left => AllInRectangle(leftPoints)

\* the interval [lo / 200, hi / 200]
Band(lo, hi) == [lo |-> Q(lo, 200), hi |-> Q(hi, 200)]

\* the smallest box around every panel of the group, in x and in z
EnvelopeX ==
  [lo |-> RatMin({ WorldX(group[i]).lo : i \in DOMAIN group }),
   hi |-> RatMax({ WorldX(group[i]).hi : i \in DOMAIN group })]
EnvelopeZ ==
  [lo |-> RatMin({ WorldZ(group[i]).lo : i \in DOMAIN group }),
   hi |-> RatMax({ WorldZ(group[i]).hi : i \in DOMAIN group })]

\* C20: in finger mode the four upright panels fill the outermost
\* thickness bands of the nominal box.  Front and back are not rotated and
\* their slabs are z in [depth/2 - thickness, depth/2] and z in [-depth/2,
\* -depth/2 + thickness]; left and right are turned a quarter about the
\* vertical axis and their slabs are x in [-width/2, -width/2 + thickness]
\* and x in [width/2 - thickness, width/2] (all divided by 100).  When the
\* panels are no thicker than the box is wide and deep, the envelope of the
\* assembled panels is exactly width by depth.
C20_UprightPanelsFillOuterBands ==
  FingerBuilt =>
    LET w == boxProps.width
        d == boxProps.depth
        t == boxProps.thickness
        front == MeshNamed("Front Panel")
        back == MeshNamed("Back Panel")
        left == MeshNamed("Left Panel")
        right == MeshNamed("Right Panel")
    IN  /\ front.rotation = NoRotation /\ back.rotation = NoRotation
        /\ left.rotation = [x |-> 0, y |-> 1] /\ right.rotation = [x |-> 0, y |-> 1]
        /\ WorldZ(front) = Band(d - 2 * t, d)
        /\ WorldZ(back) = Band(-d, -d + 2 * t)
        /\ WorldX(left) = Band(-w, -w + 2 * t)
        /\ WorldX(right) = Band(w - 2 * t, w)
        /\ (t <= w /\ t <= d) =>
             /\ EnvelopeX = Band(-w, w)
             /\ EnvelopeZ = Band(-d, d)

\* a valid box of unequal width and depth built with finger joints
C20_Witness ==
  /\ FingerBuilt /\ ValidBoxSpec(boxProps)
  /\ boxProps.width # boxProps.depth
  /\ WorldZ(MeshNamed("Left Panel")) = Band(-boxProps.depth, boxProps.depth)
  /\ WorldX(MeshNamed("Front Panel")) = Band(-boxProps.width, boxProps.width)
  /\ QLt(WorldX(MeshNamed("Left Panel")).hi, WorldX(MeshNamed("Right Panel")).lo)
  /\ EnvelopeX = Band(-boxProps.width, boxProps.width)

\* C21: when jointType is finger and fingerSize is absent, zero or negative,
\* Box does not quietly build the panel set through another path: createMesh
\* returns no panels built with a default finger size or as flat joints.
C21_NoSilentFallback ==
  (boxPc = "meshed" /\ boxProps.jointType = "finger" /\ boxProps.fingerSize <= 0) =>
    Len(group) = 0

ValidParameters(u) ==
  /\ u.width > 0 /\ u.height > 0 /\ u.depth > 0 /\ u.thickness > 0
  /\ 2 * u.thickness < MinSide(u.width, u.height, u.depth)

\* C22: whatever the controls were set to, box geometry is generated only
\* from a valid parameter set: whenever the scene's box group is rebuilt,
\* the width, height, depth and thickness it is built from are positive and
\* the thickness is less than half of the smallest dimension.
C22_CallerRejectsInvalid ==
  [][(scene' # scene) => ValidParameters(ui)]_vars

\* C24: after any sequence of parameter changes the scene holds exactly one
\* box group, the one boxRef refers to, and its boards are those built from
\* the current width, height, depth and thickness; the previous group is
\* removed when the new one is added, so the scene never holds two.
C24_SingleCurrentGroup ==
  /\ Len(scene) <= 1
  /\ ~pending.viewer =>
       /\ Len(scene) = 1 /\ boxRef = 1
       /\ scene[1].boards = ViewerGroup(ui.width, ui.height, ui.depth, ui.thickness)
       /\ Len(scene[1].boards) = 6

\* several parameters were changed and the group was rebuilt each time
C24_Witness ==
  /\ Settled /\ Len(scene) = 1
  /\ ui.width # DefaultSide /\ ui.height # ui.width /\ ui.thickness # DefaultThickness
  /\ ui.jointType = "finger"
  /\ scene[1].boards[1].geometry = BoxGeometry(ui.width, ui.height, ui.thickness)

\* the BoxProps BoxViewer receives from Index
PropsOfUi ==
  [width |-> ui.width, height |-> ui.height, depth |-> ui.depth,
   thickness |-> ui.thickness, jointType |-> ui.jointType,
   boxType |-> ui.boxType, fingerSize |-> ui.fingerSize]

\* The front panel Box builds for the current parameters: whether createMesh
\* takes the finger branch for it, and its size in the units of the inputs
\* (the mesh is scaled by 1/100).  A finger panel is drawn around the
\* rectangle (x0, y0)-(x1, y1) of its dimension record, a flat one is its
\* BoxGeometry.
FrontComponentOfUi == Components(PropsOfUi)[1]
FrontIsFingerJointed ==
  /\ ui.jointType = "finger" /\ ui.fingerSize > 0
  /\ BoxFingerBoard(PropsOfUi) # << >>
FrontDimensionsOfUi ==
  calculateFingerJointDimensions(
    [width |-> FrontComponentOfUi.fingerWidth, height |-> FrontComponentOfUi.fingerHeight,
     thickness |-> ui.thickness, fingerSize |-> ui.fingerSize,
     actualWidth |-> FrontComponentOfUi.actualWidth])
FrontPanelWidth ==
  QMul(Q100, IF FrontIsFingerJointed
             THEN QSub(FrontDimensionsOfUi.x1, FrontDimensionsOfUi.x0)
             ELSE FrontComponentOfUi.flatGeometry.width)
FrontPanelHeight ==
  QMul(Q100, IF FrontIsFingerJointed
             THEN QSub(FrontDimensionsOfUi.y1, FrontDimensionsOfUi.y0)
             ELSE FrontComponentOfUi.flatGeometry.height)

\* C25: for every jointType and boxType, the rectangle handleExport
\* draws has the width and the height of the front panel that Box builds
\* for the current parameters.
C25_ExportIsFrontPanel ==
  drawn # << >> =>
    /\ QInt(drawn[1].x2 - drawn[1].x1) = FrontPanelWidth
    /\ QInt(drawn[1].y2 - drawn[1].y1) = FrontPanelHeight

\* C26: as long as the user has not edited the finger size, the fingerSize
\* Index supplies is positive for every width, height and depth >= 1, so a
\* finger-jointed box takes the finger branch of createMesh, never the flat
\* fallback.
C26_DefaultFingerSizePositive ==
  (/\ Settled /\ ~ui.fingerSizeTouched
   /\ ui.width >= 1 /\ ui.height >= 1 /\ ui.depth >= 1)
    => /\ ui.fingerSize > 0
       /\ ui.jointType = "finger" => FrontIsFingerJointed

\* ------------------------------------ claims on the segment layout of edges
\* An edge as the walk along it: for every point its coordinate along the
\* edge and whether it is displaced from the edge's base line.
AlongHorizontal(points, yPos) ==
  [i \in DOMAIN points |-> [at |-> points[i].x, out |-> points[i].y # yPos]]
AlongVertical(points, xPos) ==
  [i \in DOMAIN points |-> [at |-> points[i].y, out |-> points[i].x # xPos]]

Interval(a, b) == [lo |-> QMin(a, b), hi |-> QMax(a, b)]
Within(inner, outer) == QLe(outer.lo, inner.lo) /\ QLe(inner.hi, outer.hi)

\* the intervals walked between two consecutive displaced points (teeth or
\* slots), and between two consecutive points of the base line
DisplacedRuns(walk) ==
  { Interval(walk[i].at, walk[i + 1].at) :
      i \in {j \in 1..(Len(walk) - 1) : walk[j].out /\ walk[j + 1].out} }
FlatRuns(walk) ==
  { Interval(walk[i].at, walk[i + 1].at) :
      i \in {j \in 1..(Len(walk) - 1) : ~walk[j].out /\ ~walk[j + 1].out} }

\* segment k of the span that starts at `start` and runs in direction `dir`
\* in segments of length `len`
Segment(start, dir, len, k) ==
  Interval(QAdd(start, QMul(QInt(dir * k), len)),
           QAdd(start, QMul(QInt(dir * (k + 1)), len)))

\* The layout of one edge of `count` teeth: the displaced runs are the odd
\* segments 1, 3, ..., 2 * count - 1, the walk reaches the base line one
\* segment after the start of the span, the even segments between two teeth
\* are flat runs, and the run to the last point covers segment 2 * count
\* (and is that segment when the span is the whole edge).
SegmentLayout(walk, start, dir, len, count, wholeEdge) ==
  LET first == CHOOSE i \in DOMAIN walk :
                 walk[i].out /\ \A j \in 1..(i - 1) : ~walk[j].out
      lastRun == Interval(walk[Len(walk) - 1].at, walk[Len(walk)].at)
  IN  /\ DisplacedRuns(walk) = { Segment(start, dir, len, 2 * j + 1) : j \in 0..(count - 1) }
      /\ Cardinality(DisplacedRuns(walk)) = count
      /\ first > 1 /\ walk[first - 1].at = QAdd(start, QMul(QInt(dir), len))
      /\ \A j \in 1..(first - 2) : walk[j].at = start
      /\ \A j \in 1..(count - 1) : Segment(start, dir, len, 2 * j) \in FlatRuns(walk)
      /\ ~walk[Len(walk)].out /\ ~walk[Len(walk) - 1].out
      /\ Within(Segment(start, dir, len, 2 * count), lastRun)
      /\ wholeEdge => lastRun = Segment(start, dir, len, 2 * count)

\* where the finger-bearing span of a horizontal edge starts: the corner the
\* edge leaves, or the near end of the finger region on an extended panel
SpanStartX(isExtended, isTop) ==
  IF isExtended
  THEN IF isTop THEN QAdd(dimensions.fingerStartX, dimensions.fingerAreaWidth)
                ELSE dimensions.fingerStartX
  ELSE IF isTop THEN dimensions.x1 ELSE dimensions.x0

\* the edges are generated the way createFingerBoard calls the generators:
\* both horizontal edges extended exactly when actualWidth > width
FlagsOfCreateFingerBoard ==
  /\ BottomDone => flags.bottomExtended = IsExtended(config.width, config.actualWidth)
  /\ TopDone => flags.topExtended = IsExtended(config.width, config.actualWidth)

\* C27: on every edge the displaced runs are exactly the odd segments 1, 3,
\* ..., 2 * count - 1 of the 2 * count + 1 equal segments of the
\* finger-bearing span, counted from the edge's start, and the even
\* segments are flat: the edge starts and ends with a gap of one segment
\* and has exactly count teeth.  The tooth intervals of the bottom and the
\* top edge coincide, and so do those of the left and the right edge.
C27_TeethOnOddSegments ==
  (config.thickness > 0 /\ FlagsOfCreateFingerBoard) =>
    /\ BottomDone =>
         SegmentLayout(AlongHorizontal(bottomPoints, dimensions.y0),
                       SpanStartX(flags.bottomExtended, FALSE), 1,
                       dimensions.fingerWidth, dimensions.countX, ~flags.bottomExtended)
    /\ RightDone =>
         SegmentLayout(AlongVertical(rightPoints, dimensions.x1),
                       dimensions.y0, 1,
                       dimensions.fingerHeight, dimensions.countY, TRUE)
    /\ TopDone =>
         /\ SegmentLayout(AlongHorizontal(topPoints, dimensions.y1),
                          SpanStartX(flags.topExtended, TRUE), -1,
                          dimensions.fingerWidth, dimensions.countX, ~flags.topExtended)
         /\ DisplacedRuns(AlongHorizontal(topPoints, dimensions.y1))
              = DisplacedRuns(AlongHorizontal(bottomPoints, dimensions.y0))
    /\ LeftDone =>
         /\ SegmentLayout(AlongVertical(leftPoints, dimensions.x0),
                          dimensions.y1, -1,
                          dimensions.fingerHeight, dimensions.countY, TRUE)
         /\ DisplacedRuns(AlongVertical(leftPoints, dimensions.x0))
              = DisplacedRuns(AlongVertical(rightPoints, dimensions.x1))

\* C28: the number of points returned is determined by the tooth count
\* alone: generateVerticalFingerPoints returns 4 * countY + 1 points,
\* generateHorizontalFingerPoints returns 4 * countX + 1 points for a
\* non-extended edge or an extended top edge and 4 * countX + 2 points for
\* an extended bottom edge.
C28_PointCounts ==
  /\ BottomDone =>
       Len(bottomPoints) = 4 * dimensions.countX + (IF flags.bottomExtended THEN 2 ELSE 1)
  /\ RightDone => Len(rightPoints) = 4 * dimensions.countY + 1
  /\ TopDone => Len(topPoints) = 4 * dimensions.countX + 1
  /\ LeftDone => Len(leftPoints) = 4 * dimensions.countY + 1

\* an extended panel with two teeth on every edge: ten points on the bottom
\* edge, nine on each of the others
C28_Witness ==
  /\ pc = "done" /\ flags.bottomExtended /\ flags.topExtended
  /\ dimensions.countX = 2 /\ dimensions.countY = 2
  /\ Len(bottomPoints) = 10 /\ Len(topPoints) = 9
  /\ Len(rightPoints) = 9 /\ Len(leftPoints) = 9

\* ------------------------------------------- claims on mating edges of a box
\* the component a mesh of the group was built from, and the dimension
\* record createFingerBoard computed for it
ComponentOf(mesh) ==
  LET components == Components(boxProps)
  IN  components[CHOOSE i \in DOMAIN components : components[i].name = mesh.componentName]
MeshDimensions(mesh) ==
  LET component == ComponentOf(mesh)
  IN  calculateFingerJointDimensions(
        [width |-> component.fingerWidth, height |-> component.fingerHeight,
         thickness |-> boxProps.thickness, fingerSize |-> boxProps.fingerSize,
         actualWidth |-> component.actualWidth])

\* The walk along one edge of a finger-jointed mesh, cut out of its shape:
\* the shape is the start corner followed by the bottom, right, top and
\* left edge, whose lengths are those of C28.
EdgeWalk(mesh, edge) ==
  LET d == MeshDimensions(mesh)
      component == ComponentOf(mesh)
      lenBottom == 4 * d.countX
                     + (IF IsExtended(component.fingerWidth, component.actualWidth) THEN 2 ELSE 1)
      lenSide == 4 * d.countY + 1
      lenTop == 4 * d.countX + 1
      from == CASE edge = "bottom" -> 1
                [] edge = "right" -> 1 + lenBottom
                [] edge = "top" -> 1 + lenBottom + lenSide
                [] edge = "left" -> 1 + lenBottom + lenSide + lenTop
      len == CASE edge = "bottom" -> lenBottom
               [] edge = "top" -> lenTop
               [] OTHER -> lenSide
      points == SubSeq(mesh.shape, from + 1, from + len)
  IN  CASE edge = "bottom" -> AlongHorizontal(points, d.y0)
        [] edge = "top" -> AlongHorizontal(points, d.y1)
        [] edge = "right" -> AlongVertical(points, d.x1)
        [] edge = "left" -> AlongVertical(points, d.x0)

\* the number of teeth or slots cut into an edge and their lengths
ToothCount(mesh, edge) == Cardinality(DisplacedRuns(EdgeWalk(mesh, edge)))
ToothLengths(mesh, edge) ==
  { QSub(run.hi, run.lo) : run \in DisplacedRuns(EdgeWalk(mesh, edge)) }

\* the span an edge of a panel is cut over, as createMesh hands it to
\* createFingerBoard: fingerWidth for a horizontal edge, fingerHeight for a
\* vertical one
EdgeSpan(mesh, edge) ==
  IF edge \in {"bottom", "top"} THEN ComponentOf(mesh).fingerWidth
                                ELSE ComponentOf(mesh).fingerHeight

\* C29: for every valid BoxSpec in finger mode and both box types, the two
\* edges of each mating pair are computed from the same span and have the
\* same tooth count and the same segment length: sideHeight for the
\* vertical edges of the four upright panels, width - 2 * thickness for the
\* horizontal edges of front/back and the matching edges of bottom/top,
\* depth - 2 * thickness for the horizontal edges of left/right and the
\* matching edges of bottom/top.
C29_MatingEdgesShareSpan ==
  (FingerBuilt /\ ValidBoxSpec(boxProps)) =>
    \A q \in SharedEdges :
      LET a == group[q[1]]
          b == group[q[3]]
          upright == {"front", "back", "left", "right"}
      IN  /\ EdgeSpan(a, q[2]) = EdgeSpan(b, q[4])
          /\ ToothCount(a, q[2]) = ToothCount(b, q[4])
          /\ ToothLengths(a, q[2]) = ToothLengths(b, q[4])
          /\ Cardinality(ToothLengths(a, q[2])) = 1
          /\ (SideOf(a) \in upright /\ SideOf(b) \in upright) =>
               EdgeSpan(a, q[2]) = sideHeight(boxProps)
          /\ (SideOf(a) \in {"front", "back"} /\ SideOf(b) \in {"bottom", "top"}) =>
               EdgeSpan(a, q[2]) = boxProps.width - 2 * boxProps.thickness
          /\ (SideOf(a) \in {"left", "right"} /\ SideOf(b) \in {"bottom", "top"}) =>
               EdgeSpan(a, q[2]) = boxProps.depth - 2 * boxProps.thickness

\* a closed box, wider than deep, whose front panel has two slots below,
\* mating with two teeth of the bottom panel
C29_Witness ==
  /\ FingerBuilt /\ ValidBoxSpec(boxProps)
  /\ boxProps.boxType = "closed" /\ boxProps.width > boxProps.depth
  /\ Cardinality(SharedEdges) = 24
  /\ ToothCount(MeshNamed("Front Panel"), "bottom") = 2
  /\ ToothCount(MeshNamed("Bottom Panel"), "top") = 2
  /\ ToothCount(MeshNamed("Left Panel"), "bottom") = 1

\* ------------------------------------------- claims on the default finger size
\* C30: in Index, from the initial state and after any sequence of width,
\* height and depth edits with no finger-size edit, fingerSize is
\* round(0.3 * min(width, height, depth)) once the effects of the edit have
\* run; an edit of the finger size sets fingerSizeTouched, which then stays
\* true forever, and from then on no step but an edit of the finger size
\* changes fingerSize: no later width, height or depth edit does.
C30_FingerSizeFollowsUntilTouched ==
  /\ []((~ui.fingerSizeTouched /\ ~pending.index) =>
          ui.fingerSize = DefaultFingerSize(ui.width, ui.height, ui.depth))
  /\ [][/\ handleFingerSizeChange => ui'.fingerSizeTouched
        /\ ui.fingerSizeTouched => ui'.fingerSizeTouched
        /\ (ui.fingerSizeTouched /\ ~handleFingerSizeChange) =>
             ui'.fingerSize = ui.fingerSize]_vars

\* a width, height or depth edit on a page whose finger size the user has
\* set to something else than the default of the new dimensions, with the
\* fingerSize effect due to run
C30_Witness ==
  /\ ui.fingerSizeTouched /\ pending.index /\ pending.viewer
  /\ ui.fingerSize # DefaultFingerSize(ui.width, ui.height, ui.depth)
  /\ ui.fingerSize > 0

====
